---------------------------- MODULE Spec2Model ----------------------------
(***************************************************************************)
(* A model of pylal/grbsummary.py: the segment arithmetic behind the       *)
(* on-source / off-source bookkeeping of externally triggered searches.    *)
(*                                                                         *)
(* Times are integer seconds.  A segment is a pair <<lo, hi>>, a segment   *)
(* list a sequence of segments, Python's None is the empty tuple.  Each    *)
(* function of the module is run from its arguments (args) through its     *)
(* local variables (loc) to its return value (ret) or exception (exc);     *)
(* pc is the position in the function body.                                *)
(***************************************************************************)
EXTENDS Integers, Sequences, FiniteSets

VARIABLES pc, args, loc, ret, exc

vars == <<pc, args, loc, ret, exc>>

-----------------------------------------------------------------------------
(* Bounds of the input space.                                              *)

MaxTime == 6

MaxSegs == 2

MaxPadding == 2

MaxTrials == 4

MaxTimeMulti == 3

MaxQuantization == 3

MaxTimeTrials == 4

MaxVetoFiles == 2

-----------------------------------------------------------------------------
(* Python values.                                                          *)

None == <<>>

\* An optional integer argument left at its default None.
NoTrials == -1

Min(a, b) == IF a <= b THEN a ELSE b

-----------------------------------------------------------------------------
(* glue.segments, as used by the module.                                   *)

\* segment(a, b): the constructor orders its bounds.
segment(a, b) == IF a <= b THEN <<a, b>> ELSE <<b, a>>

\* abs(seg)
SegAbs(s) == s[2] - s[1]

\* inner in outer, for two segments
SegIn(inner, outer) == outer[1] <= inner[1] /\ outer[2] >= inner[2]

\* seg.contract(x)
contract(s, x) == segment(s[1] + x, s[2] - x)

\* seglist.find(seg): the index of the first segment that contains seg;
\* 0 stands for the ValueError raised when there is none.
find(seglist, seg) ==
  IF \E i \in 1..Len(seglist) : SegIn(seg, seglist[i])
  THEN CHOOSE i \in 1..Len(seglist) :
         /\ SegIn(seg, seglist[i])
         /\ \A j \in 1..(i - 1) : ~SegIn(seg, seglist[j])
  ELSE 0

-----------------------------------------------------------------------------
(* compute_offsource_segment                                               *)

\* analyzable[analyzable.find(on_source)].contract(padding_time), or None
\* where find raises ValueError.
SuperSeg(analyzable, on_source, padding_time) ==
  LET ind == find(analyzable, on_source)
  IN  IF ind = 0 THEN None ELSE contract(analyzable[ind], padding_time)

NPlus(super_seg, on_source) ==
  (super_seg[2] - on_source[2]) \div SegAbs(on_source)

NMinus(super_seg, on_source) ==
  (on_source[1] - super_seg[1]) \div SegAbs(on_source)

\* A cap whose remainder forgets the trials of the short side.
CapTrialsNoRemainder(nplus, nminus, max_trials) ==
  IF max_trials # NoTrials /\ nplus + nminus > max_trials
  THEN LET half_max == max_trials \div 2
       IN  IF nplus < half_max
           THEN <<nplus, Min(max_trials, nminus)>>
           ELSE IF nminus < half_max
                THEN <<Min(max_trials, nplus), nminus>>
                ELSE <<half_max, half_max>>
  ELSE <<nplus, nminus>>

\* The max_trials truncation: <<nplus, nminus>> after it.
CapTrials(nplus, nminus, max_trials) ==
  IF max_trials # NoTrials /\ nplus + nminus > max_trials
  THEN LET half_max == max_trials \div 2
       IN  IF nplus < half_max
           THEN <<nplus, Min(max_trials - nplus, nminus)>>
           ELSE IF nminus < half_max
                THEN <<Min(max_trials - nminus, nplus), nminus>>
                ELSE <<half_max, half_max>>
  ELSE <<nplus, nminus>>

\* A symmetrization that forgets to cut the left side.
SymmetrizeOneSide(nplus, nminus, symmetric) ==
  IF symmetric THEN <<Min(nplus, nminus), nminus>> ELSE <<nplus, nminus>>

\* if symmetric: nplus = nminus = min(nplus, nminus)
Symmetrize(nplus, nminus, symmetric) ==
  IF symmetric
  THEN <<Min(nplus, nminus), Min(nplus, nminus)>>
  ELSE <<nplus, nminus>>

\* A min_trials test that counts the on-source segment as a trial.
BelowMinCountingOnSource(nplus, nminus, min_trials) ==
  min_trials # NoTrials /\ nplus + nminus + 1 < min_trials

\* (min_trials is not None) and (nplus + nminus < min_trials)
BelowMin(nplus, nminus, min_trials) ==
  min_trials # NoTrials /\ nplus + nminus < min_trials

\* A returned segment whose left side is not scaled by the on-source length.
OffsourceSegmentUnscaled(on_source, nplus, nminus, padding_time) ==
  segment(on_source[1] - nminus - padding_time,
          on_source[2] + nplus * SegAbs(on_source) + padding_time)

\* The returned segment.
OffsourceSegment(on_source, nplus, nminus, padding_time) ==
  segment(on_source[1] - nminus * SegAbs(on_source) - padding_time,
          on_source[2] + nplus * SegAbs(on_source) + padding_time)

\* The whole function, as multi_ifo_compute_offsource_segment calls it.
compute_offsource_segment(analyzable, on_source, padding_time, min_trials, max_trials, symmetric) ==
  LET super_seg == SuperSeg(analyzable, on_source, padding_time)
  IN  IF super_seg = None THEN None
      ELSE IF ~SegIn(on_source, super_seg) THEN None
      ELSE LET capped == CapTrials(NPlus(super_seg, on_source),
                                   NMinus(super_seg, on_source), max_trials)
               n == Symmetrize(capped[1], capped[2], symmetric)
           IN  IF BelowMin(n[1], n[2], min_trials) THEN None
               ELSE OffsourceSegment(on_source, n[1], n[2], padding_time)

-----------------------------------------------------------------------------
(* Inputs.                                                                 *)

SegmentsUpTo(t) == {s \in (0..t) \X (0..t) : s[1] < s[2]}

\* Coalesced segment lists: sorted, disjoint, not touching.
SegListsUpTo(t) ==
  {l \in UNION {[1..n -> SegmentsUpTo(t)] : n \in 0..MaxSegs} :
     \A i \in 1..(Len(l) - 1) : l[i][2] < l[i + 1][1]}

Segments == SegmentsUpTo(MaxTime)

SegLists == SegListsUpTo(MaxTime)

OptTrials == {NoTrials} \cup (0..MaxTrials)

\* The worked example of the documentation.
ExampleArgs ==
  [analyzable |-> << <<0, 1000>> >>, on_source |-> <<100, 200>>,
   padding_time |-> 0, min_trials |-> NoTrials, max_trials |-> NoTrials,
   symmetric |-> TRUE]

OffsourceArgs ==
  [analyzable : SegLists, on_source : Segments,
   padding_time : 0..MaxPadding, min_trials : OptTrials,
   max_trials : OptTrials, symmetric : BOOLEAN] \cup {ExampleArgs}

NoLocals == [super_seg |-> None, nplus |-> 0, nminus |-> 0]

-----------------------------------------------------------------------------
(* compute_offsource_segment, statement by statement.                      *)

InitOffsource ==
  /\ args \in OffsourceArgs
  /\ pc = "find"
  /\ loc = NoLocals
  /\ ret = None
  /\ exc = ""

\* try: super_seg = analyzable[analyzable.find(on_source)].contract(...)
\* except ValueError: return None
FindSuperSeg ==
  /\ pc = "find"
  /\ LET s == SuperSeg(args.analyzable, args.on_source, args.padding_time)
     IN  IF s = None
         THEN /\ pc' = "done"
              /\ loc' = loc
         ELSE /\ pc' = "check_padding"
              /\ loc' = [loc EXCEPT !.super_seg = s]
  /\ UNCHANGED <<args, ret, exc>>

\* if on_source not in super_seg: return None
CheckPadded ==
  /\ pc = "check_padding"
  /\ pc' = IF SegIn(args.on_source, loc.super_seg) THEN "count" ELSE "done"
  /\ UNCHANGED <<args, loc, ret, exc>>

CountTrials ==
  /\ pc = "count"
  /\ loc' = [loc EXCEPT !.nplus = NPlus(loc.super_seg, args.on_source),
                        !.nminus = NMinus(loc.super_seg, args.on_source)]
  /\ pc' = "cap"
  /\ UNCHANGED <<args, ret, exc>>

TruncateToMax ==
  /\ pc = "cap"
  /\ LET n == CapTrials(loc.nplus, loc.nminus, args.max_trials)
     IN  loc' = [loc EXCEPT !.nplus = n[1], !.nminus = n[2]]
  /\ pc' = "symmetric"
  /\ UNCHANGED <<args, ret, exc>>

MakeSymmetric ==
  /\ pc = "symmetric"
  /\ LET n == Symmetrize(loc.nplus, loc.nminus, args.symmetric)
     IN  loc' = [loc EXCEPT !.nplus = n[1], !.nminus = n[2]]
  /\ pc' = "return_offsource"
  /\ UNCHANGED <<args, ret, exc>>

ReturnOffsource ==
  /\ pc = "return_offsource"
  /\ ret' = IF BelowMin(loc.nplus, loc.nminus, args.min_trials)
            THEN None
            ELSE OffsourceSegment(args.on_source, loc.nplus, loc.nminus,
                                  args.padding_time)
  /\ pc' = "done"
  /\ UNCHANGED <<args, loc, exc>>

NextOffsource ==
  \/ FindSuperSeg
  \/ CheckPadded
  \/ CountTrials
  \/ TruncateToMax
  \/ MakeSymmetric
  \/ ReturnOffsource

SpecOffsource == InitOffsource /\ [][NextOffsource]_vars

-----------------------------------------------------------------------------
(* Properties of compute_offsource_segment (under SpecOffsource).          *)

Returned == pc = "done" /\ ret # None

\* The analyzable segment that contains the on-source segment, if any.
HomeIndex == find(args.analyzable, args.on_source)

\* The trials of a returned segment: its length without the padding, in
\* on-source lengths, minus one for the on-source segment itself.
TrialsOf(seg) ==
  (SegAbs(seg) - 2 * args.padding_time) \div SegAbs(args.on_source) - 1

\* The trials the analyzable time allows on the two sides, before any cap.
NaturalTrials ==
  NPlus(loc.super_seg, args.on_source) + NMinus(loc.super_seg, args.on_source)

\* The side counts after the max_trials truncation.
CappedTrials ==
  CapTrials(NPlus(loc.super_seg, args.on_source),
            NMinus(loc.super_seg, args.on_source), args.max_trials)

\* C1 as stated: whenever the on-source segment lies in a segment of the
\* analyzable list, the function returns a segment, which contains the
\* on-source segment and whose length is a multiple of the on-source
\* length, whatever padding_time and the other options are.
C1_AsStated ==
  (pc = "done" /\ HomeIndex # 0) =>
     /\ ret # None
     /\ SegIn(args.on_source, ret)
     /\ SegAbs(ret) % SegAbs(args.on_source) = 0

\* C1 amended: a returned segment contains the on-source segment and its
\* length exceeds twice the padding by a positive multiple of the on-source
\* length; with no padding and no min_trials a segment is always returned
\* when the on-source segment lies in a segment of the analyzable list, and
\* its length is a multiple of the on-source length.
C1_ReturnedSegment ==
  /\ Returned =>
       /\ SegIn(args.on_source, ret)
       /\ (SegAbs(ret) - 2 * args.padding_time) % SegAbs(args.on_source) = 0
       /\ SegAbs(ret) - 2 * args.padding_time >= SegAbs(args.on_source)
  /\ (pc = "done" /\ HomeIndex # 0 /\ args.padding_time = 0
        /\ args.min_trials = NoTrials) =>
       /\ ret # None
       /\ SegAbs(ret) % SegAbs(args.on_source) = 0

C1_Witness ==
  /\ Returned
  /\ args.padding_time > 0
  /\ SegAbs(args.on_source) > 1
  /\ TrialsOf(ret) >= 1

\* C2: a returned segment, padding included, lies within the analyzable
\* segment that contains the on-source segment; and None is returned when
\* no analyzable segment contains the on-source segment or when the
\* on-source segment does not fit between that segment's bounds moved
\* inwards by padding_time.
C2_WithinAnalyzable ==
  pc = "done" =>
    /\ ret # None =>
         /\ HomeIndex # 0
         /\ SegIn(ret, args.analyzable[HomeIndex])
    /\ (\/ HomeIndex = 0
        \/ args.analyzable[HomeIndex][1] + args.padding_time
             > args.on_source[1]
        \/ args.analyzable[HomeIndex][2] - args.padding_time
             < args.on_source[2]) => ret = None

\* C3: a returned segment holds at most max_trials trials.
C3_MaxTrialsCap ==
  (Returned /\ args.max_trials # NoTrials) =>
     TrialsOf(ret) <= args.max_trials

C3_Witness ==
  /\ Returned
  /\ args.max_trials # NoTrials
  /\ ~args.symmetric
  /\ NaturalTrials > args.max_trials
  /\ NPlus(loc.super_seg, args.on_source) \in 1..(args.max_trials \div 2 - 1)
  /\ TrialsOf(ret) = args.max_trials

\* The side counts <<nplus, nminus>> of the segments the constraints allow:
\* within the analyzable segment with the padding on both ends, at most
\* max_trials trials, the two sides equal when symmetric.
Allowed ==
  IF HomeIndex = 0 THEN {}
  ELSE LET home == args.analyzable[HomeIndex]
           most == SegAbs(home) \div SegAbs(args.on_source)
       IN  {n \in (0..most) \X (0..most) :
              /\ args.on_source[1] - n[2] * SegAbs(args.on_source)
                   - args.padding_time >= home[1]
              /\ args.on_source[2] + n[1] * SegAbs(args.on_source)
                   + args.padding_time <= home[2]
              /\ (args.max_trials # NoTrials =>
                    n[1] + n[2] <= args.max_trials)
              /\ (args.symmetric => n[1] = n[2])}

\* C4: the returned segment is the largest the constraints allow: no
\* allowed segment has more trials.
C4_Largest ==
  Returned => \A n \in Allowed : n[1] + n[2] <= TrialsOf(ret)

\* C5: in symmetric mode the two margins of a returned segment are equal,
\* each the padding plus min(nplus, nminus) on-source lengths, the side
\* counts taken after the max_trials truncation; the documented example
\* yields [0, 300).
C5_SymmetricMargins ==
  /\ (Returned /\ args.symmetric) =>
       /\ args.on_source[1] - ret[1] = ret[2] - args.on_source[2]
       /\ ret[2] - args.on_source[2] =
            args.padding_time
              + Min(CappedTrials[1], CappedTrials[2]) * SegAbs(args.on_source)
  /\ (pc = "done" /\ args = ExampleArgs) => ret = <<0, 300>>

C5_Witness ==
  /\ Returned
  /\ args.symmetric
  /\ args.max_trials # NoTrials
  /\ NaturalTrials > args.max_trials
  /\ CappedTrials[1] # CappedTrials[2]
  /\ TrialsOf(ret) > 0

\* C6: with min_trials given, a returned segment holds at least min_trials
\* trials, and None is returned whenever the trials left after truncation
\* and symmetrization, or already the trials the analyzable time allows,
\* are fewer than min_trials.
C6_MinTrials ==
  (pc = "done" /\ args.min_trials # NoTrials) =>
     /\ ret # None => TrialsOf(ret) >= args.min_trials
     /\ (loc.super_seg # None /\ SegIn(args.on_source, loc.super_seg)) =>
          LET n == Symmetrize(CappedTrials[1], CappedTrials[2],
                              args.symmetric)
          IN  /\ n[1] + n[2] < args.min_trials => ret = None
              /\ NaturalTrials < args.min_trials => ret = None

C6_Witness ==
  /\ pc = "done"
  /\ ret = None
  /\ args.min_trials # NoTrials
  /\ loc.super_seg # None
  /\ SegIn(args.on_source, loc.super_seg)
  /\ NaturalTrials >= args.min_trials

-----------------------------------------------------------------------------
(* Segment lists as sets of unit cells: cell t is the second [t, t + 1).   *)
(* The set operations of glue.segments act on the time covered and return  *)
(* coalesced lists.                                                        *)

CellsOf(seglist) ==
  UNION {seglist[i][1]..(seglist[i][2] - 1) : i \in 1..Len(seglist)}

\* The maximal runs of a set of cells, as segments.
RunsOf(cells) ==
  {s \in cells \X {c + 1 : c \in cells} :
     /\ s[1] < s[2]
     /\ \A t \in s[1]..(s[2] - 1) : t \in cells
     /\ (s[1] - 1) \notin cells
     /\ s[2] \notin cells}

RECURSIVE SortedSegs(_)
SortedSegs(segs) ==
  IF segs = {} THEN <<>>
  ELSE LET first == CHOOSE s \in segs : \A r \in segs : s[1] <= r[1]
       IN  <<first>> \o SortedSegs(segs \ {first})

\* The coalesced segment list that covers a set of cells.
ListOf(cells) == SortedSegs(RunsOf(cells))

-----------------------------------------------------------------------------
(* multi_ifo_compute_offsource_segment                                     *)

sensitivity_dict == [H1 |-> 1, L1 |-> 2, H2 |-> 3, V1 |-> 4, G1 |-> 5]

\* The order of list.sort() on the detector names.
alphabetical == [G1 |-> 1, H1 |-> 2, H2 |-> 3, L1 |-> 4, V1 |-> 5]

RECURSIVE SortedBy(_, _)
SortedBy(rank, ifos) ==
  IF ifos = {} THEN <<>>
  ELSE LET first == CHOOSE i \in ifos : \A j \in ifos : rank[i] <= rank[j]
       IN  <<first>> \o SortedBy(rank, ifos \ {first})

\* The sieve: the detectors whose list holds a segment containing the
\* on-source segment, each with that one segment.
Sieve(analyzable_dict, on_source) ==
  [ifo \in {i \in DOMAIN analyzable_dict :
              find(analyzable_dict[i], on_source) # 0} |->
     <<analyzable_dict[ifo][find(analyzable_dict[ifo], on_source)]>>]

\* Detectors sorted by name instead of by sensitivity.
SortedIfosByName(dict) == SortedBy(alphabetical, DOMAIN dict)

\* analyzable_ifos = new_analyzable_dict.keys(); .sort(sensitivity_cmp)
SortedIfos(dict) == SortedBy(sensitivity_dict, DOMAIN dict)

\* glue.iterutils.choices(vals, n): the n-element choices of vals, each in
\* the order of vals, in lexicographic order of positions.
RECURSIVE choices(_, _)
RECURSIVE ChoicesFrom(_, _, _)
choices(vals, n) ==
  IF n = Len(vals) THEN <<vals>>
  ELSE IF n > 1 THEN ChoicesFrom(vals, n, 1)
  ELSE [i \in 1..Len(vals) |-> <<vals[i]>>]

\* The choices whose first element is vals[i] or a later one.
ChoicesFrom(vals, n, i) ==
  IF i > Len(vals) - (n - 1) THEN <<>>
  ELSE LET rest == choices(SubSeq(vals, i + 1, Len(vals)), n - 1)
       IN  [k \in 1..Len(rest) |-> <<vals[i]>> \o rest[k]]
             \o ChoicesFrom(vals, n, i + 1)

\* chain(*imap(lambda n: choices(ifos, n), xrange(len(ifos), 1, -1)))
RECURSIVE CombosDownFrom(_, _)
CombosDownFrom(ifos, n) ==
  IF n <= 1 THEN <<>>
  ELSE choices(ifos, n) \o CombosDownFrom(ifos, n - 1)

TestCombos(ifos) == CombosDownFrom(ifos, Len(ifos))

\* segmentlistdict.intersection(keys)
RECURSIVE CommonCells(_, _)
CommonCells(dict, keys) ==
  IF Cardinality(keys) = 1
  THEN CellsOf(dict[CHOOSE k \in keys : TRUE])
  ELSE LET k == CHOOSE k \in keys : TRUE
       IN  CellsOf(dict[k]) \cap CommonCells(dict, keys \ {k})

intersection(dict, keys) ==
  IF keys = {} THEN <<>> ELSE ListOf(CommonCells(dict, keys))

Elements(seq) == {seq[i] : i \in 1..Len(seq)}

CallOffsource(analyzable, on_source, kwargs) ==
  compute_offsource_segment(analyzable, on_source, kwargs.padding_time,
                            kwargs.min_trials, kwargs.max_trials,
                            kwargs.symmetric)

Ifos == {"H1", "L1", "H2"}

MultiDicts ==
  UNION {[present -> SegListsUpTo(MaxTimeMulti)] : present \in SUBSET Ifos}

MultiKwargs ==
  [padding_time : {0, 1}, min_trials : {NoTrials, 1},
   max_trials : {NoTrials}, symmetric : BOOLEAN]

MultiArgs ==
  [analyzable_dict : MultiDicts,
   on_source : {s \in SegmentsUpTo(MaxTimeMulti) : SegAbs(s) = 1},
   kwargs : MultiKwargs]

InitMultiIfo ==
  /\ args \in MultiArgs
  /\ pc = "sieve"
  /\ loc = [new_analyzable_dict |-> <<>>, analyzable_ifos |-> <<>>,
            test_combos |-> <<>>, next |-> 1,
            off_source_segment |-> None, the_ifo_combo |-> <<>>]
  /\ ret = None
  /\ exc = ""

\* The loop over analyzable_dict, and the sort of the detectors kept.
SieveIfos ==
  /\ pc = "sieve"
  /\ LET kept == Sieve(args.analyzable_dict, args.on_source)
     IN  loc' = [loc EXCEPT !.new_analyzable_dict = kept,
                            !.analyzable_ifos = SortedIfos(kept)]
  /\ pc' = "combos"
  /\ UNCHANGED <<args, ret, exc>>

BuildCombos ==
  /\ pc = "combos"
  /\ loc' = [loc EXCEPT !.test_combos = TestCombos(loc.analyzable_ifos),
                        !.next = 1,
                        !.off_source_segment = None,
                        !.the_ifo_combo = <<>>]
  /\ pc' = "loop"
  /\ UNCHANGED <<args, ret, exc>>

\* One pass of the loop over test_combos: a combination that yields a
\* segment ends the loop.
TryCombo ==
  /\ pc = "loop"
  /\ loc.next <= Len(loc.test_combos)
  /\ LET ifo_combo == loc.test_combos[loc.next]
         trial_seglist == intersection(loc.new_analyzable_dict,
                                       Elements(ifo_combo))
         temp_segment == CallOffsource(trial_seglist, args.on_source,
                                       args.kwargs)
     IN  IF temp_segment # None
         THEN /\ loc' = [loc EXCEPT
                           !.off_source_segment = temp_segment,
                           !.the_ifo_combo =
                              SortedBy(alphabetical, Elements(ifo_combo))]
              /\ pc' = "return_multi"
         ELSE /\ loc' = [loc EXCEPT !.next = loc.next + 1]
              /\ pc' = "loop"
  /\ UNCHANGED <<args, ret, exc>>

\* The combinations are used up.
EndOfCombos ==
  /\ pc = "loop"
  /\ loc.next > Len(loc.test_combos)
  /\ pc' = "return_multi"
  /\ UNCHANGED <<args, loc, ret, exc>>

ReturnMultiIfo ==
  /\ pc = "return_multi"
  /\ ret' = <<loc.off_source_segment, loc.the_ifo_combo>>
  /\ pc' = "done"
  /\ UNCHANGED <<args, loc, exc>>

NextMultiIfo ==
  \/ SieveIfos
  \/ BuildCombos
  \/ TryCombo
  \/ EndOfCombos
  \/ ReturnMultiIfo

SpecMultiIfo == InitMultiIfo /\ [][NextMultiIfo]_vars

-----------------------------------------------------------------------------
(* Properties of multi_ifo_compute_offsource_segment (under SpecMultiIfo). *)

\* The detectors whose segment list contains the on-source segment.
Eligible ==
  {i \in DOMAIN args.analyzable_dict :
     \E k \in 1..Len(args.analyzable_dict[i]) :
        SegIn(args.on_source, args.analyzable_dict[i][k])}

\* The segment of detector i that contains the on-source segment.
HomeOf(i) ==
  CHOOSE s \in Elements(args.analyzable_dict[i]) : SegIn(args.on_source, s)

\* What compute_offsource_segment makes of the time common to the
\* detectors of group.
Attempt(group) ==
  LET lo == CHOOSE t \in {HomeOf(i)[1] : i \in group} :
              \A i \in group : HomeOf(i)[1] <= t
      hi == CHOOSE t \in {HomeOf(i)[2] : i \in group} :
              \A i \in group : HomeOf(i)[2] >= t
  IN  CallOffsource(<< <<lo, hi>> >>, args.on_source, args.kwargs)

\* Group a is tried before group b: it is larger, or as large and first in
\* the lexicographic order of the sensitivity ranking.
TriedBefore(a, b) ==
  \/ Cardinality(a) > Cardinality(b)
  \/ /\ Cardinality(a) = Cardinality(b)
     /\ a # b
     /\ LET differ == (a \ b) \cup (b \ a)
            least == CHOOSE i \in differ :
                       \A j \in differ :
                          sensitivity_dict[i] <= sensitivity_dict[j]
        IN  least \in a

Groups == {g \in SUBSET Eligible : Cardinality(g) >= 2}

\* C7: the result is the segment of the first group of at least two
\* eligible detectors, in the order of decreasing size and then of the
\* sensitivity ranking, for which compute_offsource_segment succeeds; if
\* there is none the result is (None, []).
C7_FirstSuccess ==
  pc = "done" =>
    LET chosen == Elements(ret[2])
    IN  /\ ret[1] = None =>
             /\ ret[2] = <<>>
             /\ \A g \in Groups : Attempt(g) = None
        /\ ret[1] # None =>
             /\ chosen \in Groups
             /\ Len(ret[2]) = Cardinality(chosen)
             /\ ret[1] = Attempt(chosen)
             /\ \A g \in Groups : TriedBefore(g, chosen) => Attempt(g) = None

C7_Witness ==
  /\ pc = "done"
  /\ Eligible = Ifos
  /\ ret[1] # None
  /\ Elements(ret[2]) = {"L1", "H2"}

-----------------------------------------------------------------------------
(* compute_masked_segments.  A segment list is taken for the time it       *)
(* covers; the lists returned are written coalesced.                       *)

\* An optional quantization_time left at its default None.
NoQuantization == 0

\* segmentlist.coalesce()
coalesce(seglist) == ListOf(CellsOf(seglist))

\* a - b and a | b on segment lists
Minus(a, b) == ListOf(CellsOf(a) \ CellsOf(b))

Union(a, b) == ListOf(CellsOf(a) \cup CellsOf(b))

\* [segment(s[0], s[0] + abs(s)//quantization_time) for s in pieces]
Quantized(pieces, quantization_time) ==
  [i \in 1..Len(pieces) |->
     segment(pieces[i][1],
             pieces[i][1] + SegAbs(pieces[i]) \div quantization_time)]

\* The off-source mask after the optional quantization.
QuantizedMask(analyzable_seglist, off_source_segs, off_source_mask, quantization_time) ==
  IF quantization_time # NoQuantization
  THEN Minus(analyzable_seglist,
             Quantized(Minus(off_source_segs, off_source_mask),
                       quantization_time))
  ELSE off_source_mask

MaskedArgs ==
  [analyzable_seglist : SegLists, on_source_segment : Segments,
   veto_seglist : {None} \cup (SegLists \ {<<>>}),
   quantization_time : {NoQuantization} \cup (1..MaxQuantization)]

InitMasked ==
  /\ args \in MaskedArgs
  /\ pc = "coalesce"
  /\ loc = [analyzable_seglist |-> <<>>, veto_seglist |-> <<>>,
            off_source_segs |-> <<>>, on_source_mask |-> <<>>,
            off_source_mask |-> <<>>]
  /\ ret = None
  /\ exc = ""

\* The copy of the analyzable list is coalesced, a veto list of None
\* becomes the empty list, and the on-source segment is taken out.
PrepareLists ==
  /\ pc = "coalesce"
  /\ LET analyzable == coalesce(args.analyzable_seglist)
     IN  loc' = [loc EXCEPT
                   !.analyzable_seglist = analyzable,
                   !.veto_seglist = args.veto_seglist,
                   !.off_source_segs =
                      Minus(analyzable, <<args.on_source_segment>>)]
  /\ pc' = "masks"
  /\ UNCHANGED <<args, ret, exc>>

\* The two masks, before quantization.
ComputeMasks ==
  /\ pc = "masks"
  /\ loc' = [loc EXCEPT
               !.on_source_mask = Union(loc.off_source_segs, loc.veto_seglist),
               !.off_source_mask =
                  Union(<<args.on_source_segment>>, loc.veto_seglist)]
  /\ pc' = "quantize"
  /\ UNCHANGED <<args, ret, exc>>

QuantizeAndReturn ==
  /\ pc = "quantize"
  /\ LET mask == QuantizedMask(loc.analyzable_seglist, loc.off_source_segs,
                               loc.off_source_mask, args.quantization_time)
     IN  /\ loc' = [loc EXCEPT !.off_source_mask = mask]
         /\ ret' = <<loc.on_source_mask, mask>>
  /\ pc' = "done"
  /\ UNCHANGED <<args, exc>>

NextMasked ==
  \/ PrepareLists
  \/ ComputeMasks
  \/ QuantizeAndReturn

SpecMasked == InitMasked /\ [][NextMasked]_vars

-----------------------------------------------------------------------------
(* Properties of compute_masked_segments (under SpecMasked).               *)

\* The off-source pieces before quantization: the analyzable time without
\* the on-source segment and without the vetoes.
UnquantizedPieces ==
  RunsOf((CellsOf(args.analyzable_seglist)
            \ CellsOf(<<args.on_source_segment>>))
            \ CellsOf(args.veto_seglist))

\* C9: with quantization_time q, the analyzable time the off-source mask
\* leaves free consists of the unquantized off-source pieces, each kept
\* from its start over floor(length / q) * q seconds; the on-source segment
\* and the vetoed analyzable time stay masked.
C9_QuantizedPieces ==
  (pc = "done" /\ args.quantization_time # NoQuantization) =>
     LET q == args.quantization_time
         free == CellsOf(args.analyzable_seglist) \ CellsOf(ret[2])
         masked == CellsOf(ret[2])
     IN  /\ free = UNION {s[1]..(s[1] + (SegAbs(s) \div q) * q - 1) :
                            s \in UnquantizedPieces}
         /\ CellsOf(args.analyzable_seglist)
              \cap CellsOf(<<args.on_source_segment>>) \subseteq masked
         /\ CellsOf(args.analyzable_seglist)
              \cap CellsOf(args.veto_seglist) \subseteq masked

-----------------------------------------------------------------------------
(* pylal.rate, as used by get_exttrig_trials.  LinearBins(min, max, n)     *)
(* cuts [min, max] into n bins of width (max - min) / n; bin k = 0..n-1    *)
(* runs from min + k (max - min) / n to min + (k + 1) (max - min) / n.     *)
(* Bounds are compared after multiplication by n, so that no fraction      *)
(* is rounded.                                                             *)

LinearBins(min, max, n) == [min |-> min, max |-> max, n |-> n]

\* Segment seg and bin k of bins share more than a point.
Overlaps(bins, k, seg) ==
  /\ seg[1] < seg[2]
  /\ bins.n * seg[1] < bins.n * bins.min + (k + 1) * (bins.max - bins.min)
  /\ bins.n * seg[2] > bins.n * bins.min + k * (bins.max - bins.min)

\* bins_spanned(bins, seglist, dtype = bool8): entry k + 1 tells whether
\* the list overlaps bin k.
bins_spanned(bins, seglist) ==
  [i \in 1..bins.n |->
     \E j \in 1..Len(seglist) : Overlaps(bins, i - 1, seglist[j])]

-----------------------------------------------------------------------------
(* get_exttrig_trials                                                      *)

\* abs(seglist)
RECURSIVE ListAbs(_)
ListAbs(seglist) ==
  IF seglist = <<>> THEN 0
  ELSE SegAbs(Head(seglist)) + ListAbs(Tail(seglist))

\* seglist.extent(), of a list that is not empty
extent(seglist) ==
  segment(CHOOSE t \in {seglist[i][1] : i \in 1..Len(seglist)} :
            \A i \in 1..Len(seglist) : t <= seglist[i][1],
          CHOOSE t \in {seglist[i][2] : i \in 1..Len(seglist)} :
            \A i \in 1..Len(seglist) : t >= seglist[i][2])

\* seglist.intersects(other)
intersects(a, b) == CellsOf(a) \cap CellsOf(b) # {}

\* abs(off_segs) % trial_len != 0
NotDivisible(on_segs, off_segs) ==
  ListAbs(off_segs) % ListAbs(on_segs) # 0

\* sum(mask): the entries that are True
RECURSIVE CountTrue(_)
CountTrue(mask) ==
  IF mask = <<>> THEN 0
  ELSE (IF Head(mask) THEN 1 ELSE 0) + CountTrue(Tail(mask))

\* An on-source test that only rejects the empty mask.
NotOneTrialOnlyEmpty(onsource_mask) == CountTrue(onsource_mask) = 0

\* sum(onsource_mask) != 1
NotOneTrial(onsource_mask) == CountTrue(onsource_mask) # 1

\* numpy.arange(len(mask))[mask]: the indices, from 0, that are True
RECURSIVE IndicesFrom(_, _)
IndicesFrom(mask, k) ==
  IF mask = <<>> THEN <<>>
  ELSE (IF Head(mask) THEN <<k>> ELSE <<>>) \o IndicesFrom(Tail(mask), k + 1)

TrialLists == SegListsUpTo(MaxTimeTrials) \ {<<>>}

\* The segments of a veto file, as fromsegwizard reads them.
VetoFileSegs ==
  {<<s>> : s \in {r \in SegmentsUpTo(MaxTimeTrials) : SegAbs(r) = 1}}

TrialsArgs ==
  [on_segs : TrialLists, off_segs : TrialLists,
   veto_files : UNION {[1..n -> VetoFileSegs] : n \in 0..MaxVetoFiles}]

InitTrials ==
  /\ args \in TrialsArgs
  /\ pc = "check_length"
  /\ loc = [trial_len |-> 0, extent |-> None, num_trials |-> 0,
            trial_bins |-> None, trial_veto_mask |-> <<>>,
            next |-> 1, warnings |-> {}]
  /\ ret = None
  /\ exc = ""

\* The length check, and the extent of the off-source list.
CheckLength ==
  /\ pc = "check_length"
  /\ IF NotDivisible(args.on_segs, args.off_segs)
     THEN /\ exc' = "ValueError"
          /\ loc' = [loc EXCEPT !.trial_len = ListAbs(args.on_segs)]
          /\ pc' = "done"
     ELSE /\ exc' = exc
          /\ loc' = [loc EXCEPT !.trial_len = ListAbs(args.on_segs),
                                !.extent = extent(args.off_segs)]
          /\ pc' = "bins"
  /\ UNCHANGED <<args, ret>>

\* The bins of the trials and the empty veto mask.
MakeBins ==
  /\ pc = "bins"
  /\ LET num_trials == SegAbs(loc.extent) \div loc.trial_len
     IN  loc' = [loc EXCEPT
                   !.num_trials = num_trials,
                   !.trial_bins = LinearBins(loc.extent[1], loc.extent[2],
                                             num_trials),
                   !.trial_veto_mask = [i \in 1..num_trials |-> FALSE]]
  /\ pc' = "vetoes"
  /\ UNCHANGED <<args, ret, exc>>

\* One veto file: a warning when it overlaps the on-source segments, and
\* its bins added to the mask.
ReadVetoFile ==
  /\ pc = "vetoes"
  /\ loc.next <= Len(args.veto_files)
  /\ LET new_veto_segs == args.veto_files[loc.next]
         spanned == bins_spanned(loc.trial_bins, new_veto_segs)
     IN  loc' = [loc EXCEPT
                   !.warnings = IF intersects(new_veto_segs, args.on_segs)
                                THEN loc.warnings \cup {loc.next}
                                ELSE loc.warnings,
                   !.trial_veto_mask =
                      [i \in 1..loc.num_trials |->
                         loc.trial_veto_mask[i] \/ spanned[i]],
                   !.next = loc.next + 1]
  /\ pc' = "vetoes"
  /\ UNCHANGED <<args, ret, exc>>

VetoFilesRead ==
  /\ pc = "vetoes"
  /\ loc.next > Len(args.veto_files)
  /\ pc' = "onsource"
  /\ UNCHANGED <<args, loc, ret, exc>>

\* The on-source trial: an error unless exactly one bin is spanned.
FindOnsourceTrial ==
  /\ pc = "onsource"
  /\ LET onsource_mask == bins_spanned(loc.trial_bins, args.on_segs)
     IN  IF NotOneTrial(onsource_mask)
         THEN /\ exc' = "ValueError"
              /\ ret' = ret
         ELSE /\ exc' = exc
              /\ ret' = <<loc.trial_bins, loc.trial_veto_mask,
                          IndicesFrom(onsource_mask, 0)>>
  /\ pc' = "done"
  /\ UNCHANGED <<args, loc>>

NextTrials ==
  \/ CheckLength
  \/ MakeBins
  \/ ReadVetoFile
  \/ VetoFilesRead
  \/ FindOnsourceTrial

SpecTrials == InitTrials /\ [][NextTrials]_vars

-----------------------------------------------------------------------------
(* Properties of get_exttrig_trials (under SpecTrials).                    *)

OnDuration == ListAbs(args.on_segs)

OffDuration == ListAbs(args.off_segs)

OffExtent == SegAbs(extent(args.off_segs))

\* The bins, of the number the function makes, that the on-source segments
\* reach into.
OnsourceBins ==
  LET n == OffExtent \div OnDuration
      lo == extent(args.off_segs)[1]
  IN  {k \in 0..(n - 1) :
         \E j \in 1..Len(args.on_segs) :
            /\ n * args.on_segs[j][2] > n * lo + k * OffExtent
            /\ n * args.on_segs[j][1] < n * lo + (k + 1) * OffExtent}

\* The veto files that overlap the on-source segments.
OverlappingVetoFiles ==
  {f \in 1..Len(args.veto_files) :
     \E s \in Elements(args.veto_files[f]), o \in Elements(args.on_segs) :
        s[1] < o[2] /\ o[1] < s[2]}

C10_BinWidth ==
  (pc \in {"vetoes", "onsource", "done"} /\ loc.num_trials > 0) =>
     /\ loc.trial_bins.min = extent(args.off_segs)[1]
     /\ loc.trial_bins.max = extent(args.off_segs)[2]
     /\ loc.trial_bins.n >= 1
     /\ loc.trial_bins.n * OnDuration
          = loc.trial_bins.max - loc.trial_bins.min

-----------------------------------------------------------------------------
(* The module as a whole: a call of any of its four functions.             *)

Init == InitOffsource \/ InitMultiIfo \/ InitMasked \/ InitTrials

Next == NextOffsource \/ NextMultiIfo \/ NextMasked \/ NextTrials

Spec == Init /\ [][Next]_vars

=============================================================================
